---- MODULE Spec2Model ----
(***************************************************************************)
(* Offline verifier of the generic off-chain account ownership proof       *)
(* (offchain-account-ownership: scripts/verify_proof.ts,                   *)
(* scripts/utils/contract_class.ts, scripts/utils/types.ts).               *)
(*                                                                         *)
(* Field elements are terms: an atom is <<"F", n>>, a two-input Poseidon2  *)
(* hash is <<"H2", left, right>>, a hash with separator is                 *)
(* <<"HS", separator, inputs>>.  Two terms are equal exactly when they     *)
(* were built the same way, which is the collision-free reading of the     *)
(* hash.  A payload string that carries a field element is a record        *)
(* [enc, val]: enc says how the text is written ("canon" is what           *)
(* Fr.toString prints, "alt" is another spelling of the same element,      *)
(* "bad" and "proto" do not parse), val is the element a parse yields.     *)
(***************************************************************************)
EXTENDS Integers, Sequences, FiniteSets, TLC

\* Height of the private-functions tree used by the model (the deployed
\* trees have height 7; the verifier never reads the height).
TreeHeight == 2

RECURSIVE Pow2(_)
Pow2(n) == IF n = 0 THEN 1 ELSE 2 * Pow2(n - 1)

----------------------------------------------------------------------------
(* Field elements and their text form *)

Fr(n) == <<"F", n>>

Str(enc, val) == [enc |-> enc, val |-> val]

\* Fr.toString(): the canonical spelling.
FrToString(f) == Str("canon", f)

\* Fr.fromString(s): parses any spelling of an element; throws on text that
\* is not a field element.
FrFromStringThrows(s) == s.enc \notin {"canon", "alt"}
FrFromString(s) == s.val

\* The string "constructor": not a field element, but a key that every
\* plain JavaScript object answers through its prototype.
ProtoKeyString == Str("proto", Fr(0))
BadString == Str("bad", Fr(0))

----------------------------------------------------------------------------
(* Hash primitives (contract_class.ts imports) *)

poseidon2Hash(left, right) == <<"H2", left, right>>

poseidon2HashWithSeparator(inputs, separator) == <<"HS", separator, inputs>>

FUNCTION_LEAF == "FUNCTION_LEAF"
CONTRACT_LEAF == "CONTRACT_LEAF"

----------------------------------------------------------------------------
(* contract_class.ts *)

\* The two inputs of the leaf hash in the wrong order.
computeFunctionLeafHashSwapped(selector, vkHash) ==
    poseidon2HashWithSeparator(<<vkHash, selector>>, FUNCTION_LEAF)

\* A leaf hash that forgets the verification key.
computeFunctionLeafHashNoVk(selector, vkHash) ==
    poseidon2HashWithSeparator(<<selector, selector>>, FUNCTION_LEAF)

computeFunctionLeafHash(selector, vkHash) ==
    poseidon2HashWithSeparator(<<selector, vkHash>>, FUNCTION_LEAF)

\* The hasher with its operands exchanged.
membershipHasherSwapped(left, right) == poseidon2Hash(right, left)

\* The hasher handed to computeRootFromSiblingPath:
\*   async (left, right) => (await poseidon2Hash([left, right])).toBuffer()
membershipHasher(left, right) == poseidon2Hash(left, right)

\* computeRootFromSiblingPath(leaf, siblingPath, index, hasher) of
\* @aztec/foundation/trees: one step per sibling, in order; the low bit of
\* the index says whether the node is the right child, then the index is
\* shifted right by one.  There is no check of the index against the
\* length of the path.
RECURSIVE computeRootFromSiblingPath(_, _, _)
computeRootFromSiblingPath(node, siblingPath, index) ==
    IF siblingPath = <<>> THEN node
    ELSE LET sibling == Head(siblingPath)
             isRight == index % 2
             next    == IF isRight = 1 THEN membershipHasher(sibling, node)
                                       ELSE membershipHasher(node, sibling)
         IN computeRootFromSiblingPath(next, Tail(siblingPath), index \div 2)

\* siblingPath is already a sequence of field elements here.
computeRootFromMembershipProof(leafPreimage, siblingPath, leafIndex) ==
    LET selectorField == FrFromString(leafPreimage.selector)
        vkHashField   == FrFromString(leafPreimage.vkHash)
        leafHash      == computeFunctionLeafHash(selectorField, vkHashField)
    IN computeRootFromSiblingPath(leafHash, siblingPath, leafIndex)

computeRootFromMembershipProofThrows(leafPreimage) ==
    FrFromStringThrows(leafPreimage.selector) \/ FrFromStringThrows(leafPreimage.vkHash)

\* A class id with the artifact hash and the functions root in each other's place.
computeContractClassIdSwapped(artifactHash, privateFunctionsRoot, publicBytecodeCommitment) ==
    poseidon2HashWithSeparator(
        <<privateFunctionsRoot, artifactHash, publicBytecodeCommitment>>, CONTRACT_LEAF)

\* A class id hashed under the separator of function leaves.
computeContractClassIdLeafSeparator(artifactHash, privateFunctionsRoot, publicBytecodeCommitment) ==
    poseidon2HashWithSeparator(
        <<artifactHash, privateFunctionsRoot, publicBytecodeCommitment>>, FUNCTION_LEAF)

\* A class id that leaves the bytecode commitment out of the hash.
computeContractClassIdNoBytecode(artifactHash, privateFunctionsRoot, publicBytecodeCommitment) ==
    poseidon2HashWithSeparator(<<artifactHash, privateFunctionsRoot>>, CONTRACT_LEAF)

computeContractClassId(artifactHash, privateFunctionsRoot, publicBytecodeCommitment) ==
    poseidon2HashWithSeparator(
        <<artifactHash, privateFunctionsRoot, publicBytecodeCommitment>>, CONTRACT_LEAF)

\* threw = TRUE stands for an exception leaving the function.
verifyVkMembershipAndComputeClassId(vkMembershipProof, artifactHash, publicBytecodeCommitment) ==
    LET rawPath == vkMembershipProof.siblingPath
        threw ==
            \/ \E i \in 1..Len(rawPath) : FrFromStringThrows(rawPath[i])
            \/ FrFromStringThrows(artifactHash)
            \/ FrFromStringThrows(publicBytecodeCommitment)
            \/ computeRootFromMembershipProofThrows(vkMembershipProof.leafPreimage)
        siblingPath == [i \in 1..Len(rawPath) |-> FrFromString(rawPath[i])]
        computedPrivateFunctionsRoot ==
            computeRootFromMembershipProof(vkMembershipProof.leafPreimage, siblingPath,
                                           vkMembershipProof.leafIndex)
        computedClassId ==
            computeContractClassId(FrFromString(artifactHash), computedPrivateFunctionsRoot,
                                   FrFromString(publicBytecodeCommitment))
    IN IF threw
       THEN [threw |-> TRUE, computedClassId |-> Fr(0), computedPrivateFunctionsRoot |-> Fr(0)]
       ELSE [threw |-> FALSE, computedClassId |-> computedClassId,
             computedPrivateFunctionsRoot |-> computedPrivateFunctionsRoot]

isVerifyPrivateAuthwitSelector(selector, functionName) ==
    functionName = "verify_private_authwit"

----------------------------------------------------------------------------
(* The contract class the prover's artifact really has, and the payload the
   generator assembles from it (generate_proof.ts) *)

SelectorAuthwit == Fr(11)   \* selector of verify_private_authwit
SelectorOther   == Fr(12)   \* selector of another private function
VkAccount       == Fr(21)   \* VK hash of the account's function
VkCircuit       == Fr(22)   \* VK hash of the ownership-proof circuit
VkForeign       == Fr(23)
ArtifactHash    == Fr(31)
ArtifactOther   == Fr(32)
BytecodeCommitment == Fr(41)
JunkField       == Fr(99)

LeafCount == Pow2(TreeHeight)

\* A world is the tree of one contract class: the function leaf at `index`
\* carries (selector, vkHash); every other leaf is a distinct filler.
Worlds == [index : 0..(LeafCount - 1), selector : {SelectorAuthwit, SelectorOther}]

Leaves(w) ==
    [j \in 0..(LeafCount - 1) |->
        IF j = w.index
        THEN poseidon2HashWithSeparator(<<w.selector, VkAccount>>, FUNCTION_LEAF)
                       ELSE Fr(100 + j)]

\* Node k of the given level of the tree (level 0 = leaves), built with the
\* same pair hash as the verifier uses.
RECURSIVE NodeAt(_, _, _)
NodeAt(leaves, level, k) ==
    IF level = 0 THEN leaves[k]
    ELSE poseidon2Hash(NodeAt(leaves, level - 1, 2 * k),
                       NodeAt(leaves, level - 1, 2 * k + 1))

TreeRoot(leaves) == NodeAt(leaves, TreeHeight, 0)

\* The sibling of the node above leaf i, at each level from the leaves up.
SiblingPathOf(leaves, i) ==
    [l \in 1..TreeHeight |->
        LET k == i \div Pow2(l - 1)
        IN NodeAt(leaves, l - 1, IF k % 2 = 0 THEN k + 1 ELSE k - 1)]

\* getContractClassWithMembershipProof: the class and the proof for the
\* function of the world.
getContractClassWithMembershipProof(w) ==
    LET root == TreeRoot(Leaves(w))
    IN [contractClass |->
            [id |-> poseidon2HashWithSeparator(
                        <<ArtifactHash, root, BytecodeCommitment>>, CONTRACT_LEAF),
             artifactHash |-> ArtifactHash,
             privateFunctionsRoot |-> root,
             publicBytecodeCommitment |-> BytecodeCommitment],
        membershipProof |->
            [selector |-> w.selector, vkHash |-> VkAccount,
             siblingPath |-> SiblingPathOf(Leaves(w), w.index),
             leafIndex |-> w.index]]

\* getAccountVkMembershipProof: everything printed with toString().
getAccountVkMembershipProof(w) ==
    LET g == getContractClassWithMembershipProof(w)
    IN [contractClass |->
            [id |-> FrToString(g.contractClass.id),
             artifactHash |-> FrToString(g.contractClass.artifactHash),
             publicBytecodeCommitment |-> FrToString(g.contractClass.publicBytecodeCommitment)],
        vkMembershipProof |->
            [leafPreimage |-> [selector |-> FrToString(g.membershipProof.selector),
                               vkHash |-> FrToString(g.membershipProof.vkHash)],
             siblingPath |-> [i \in 1..TreeHeight |-> FrToString(g.membershipProof.siblingPath[i])],
             leafIndex |-> g.membershipProof.leafIndex],
        privateFunctionsRoot |-> FrToString(g.contractClass.privateFunctionsRoot)]

----------------------------------------------------------------------------
(* The proving backend (bb.js), by its contract *)

\* A raw proof is genuine (made by generateProof over the public inputs
\* `over`, for the ownership-proof circuit), forged, or bytes the backend
\* cannot parse.  verifyProof answers for the circuit the verifier loaded
\* itself (circuitJson.bytecode), whose VK hash is VkCircuit.
ProofKinds == {"genuine", "forged", "garbage"}

backendVerifyProof(rawProof, publicInputs) ==
    IF rawProof.kind = "garbage" THEN "throw"
    ELSE IF rawProof.kind = "genuine" /\ rawProof.over = publicInputs THEN "true"
    ELSE "false"

----------------------------------------------------------------------------
(* verify_proof.ts: the pure parts *)

Undefined == "<undefined>"
EmptyString == Str("empty", Fr(0))

\* JavaScript truthiness of an optional string argument.
Truthy(s) == s # Undefined /\ s # ""

\* const KNOWN_ACCOUNT_TYPES = {}: no own keys; a lookup still finds the
\* properties of Object.prototype.
KNOWN_ACCOUNT_TYPES(vkHash) ==
    IF vkHash = ProtoKeyString THEN "Object" ELSE Undefined

\* A step 1 that takes the root the prover printed in _debug instead of
\* recomputing it from the membership proof.
verifyVkMembershipTrustingRoot(proofData) ==
    LET root == FrFromString(proofData._debug.privateFunctionsRoot)
        cid  == computeContractClassId(FrFromString(proofData.contractClass.artifactHash), root,
                    FrFromString(proofData.contractClass.publicBytecodeCommitment))
        classIdMatches == FrToString(cid) = proofData.contractClass.id
    IN [isValid |-> classIdMatches,
        computedClassId |-> FrToString(cid),
        computedPrivateFunctionsRoot |-> FrToString(root),
        message |-> IF classIdMatches THEN "verified" ELSE "mismatch"]

\* A step 1 that parses the claimed id and compares field elements.
verifyVkMembershipFieldEquality(proofData) ==
    LET r == verifyVkMembershipAndComputeClassId(
                 proofData.vkMembershipProof,
                 proofData.contractClass.artifactHash,
                 proofData.contractClass.publicBytecodeCommitment)
        classIdMatches == /\ ~FrFromStringThrows(proofData.contractClass.id)
                          /\ r.computedClassId = FrFromString(proofData.contractClass.id)
    IN IF r.threw
       THEN [isValid |-> FALSE, computedClassId |-> EmptyString,
             computedPrivateFunctionsRoot |-> EmptyString, message |-> "error"]
       ELSE [isValid |-> classIdMatches,
             computedClassId |-> FrToString(r.computedClassId),
             computedPrivateFunctionsRoot |-> FrToString(r.computedPrivateFunctionsRoot),
             message |-> IF classIdMatches THEN "verified" ELSE "mismatch"]

verifyVkMembership(proofData) ==
    LET r == verifyVkMembershipAndComputeClassId(
                 proofData.vkMembershipProof,
                 proofData.contractClass.artifactHash,
                 proofData.contractClass.publicBytecodeCommitment)
        classIdMatches == FrToString(r.computedClassId) = proofData.contractClass.id
    IN IF r.threw
       THEN [isValid |-> FALSE, computedClassId |-> EmptyString,
             computedPrivateFunctionsRoot |-> EmptyString, message |-> "error"]
       ELSE [isValid |-> classIdMatches,
             computedClassId |-> FrToString(r.computedClassId),
             computedPrivateFunctionsRoot |-> FrToString(r.computedPrivateFunctionsRoot),
             message |-> IF classIdMatches THEN "verified" ELSE "mismatch"]

verifySelectorIsAuthwit(proofData) ==
    LET expectedFunctionName == "verify_private_authwit"
        actualFunctionName == proofData.metadata.functionName
        isValid == actualFunctionName = expectedFunctionName
    IN [isValid |-> isValid, message |-> IF isValid THEN "verified" ELSE "failed"]

\* The challenge guard at the head of verifyZkProof: TRUE when it returns
\* the mismatch result without going on.
challengeMismatch(proofData, expected) ==
    Truthy(expected) /\ proofData.challenge # expected

identifyAccountType(vkHash) ==
    LET knownType == KNOWN_ACCOUNT_TYPES(vkHash)
    IN IF knownType # Undefined
       THEN [accountType |-> knownType, isKnown |-> TRUE]
       ELSE [accountType |-> Undefined, isKnown |-> FALSE]

\* An aggregate that also asks for a known account type.
allValidWithAccountType(vk, sel, prf, acct) ==
    vk.isValid /\ sel.isValid /\ prf.isValid /\ acct.isKnown

\* const allValid = vkResult.isValid && selectorResult.isValid && proofResult.isValid
allValid(vk, sel, prf, acct) == vk.isValid /\ sel.isValid /\ prf.isValid

\* A result that reports the recomputed class id in place of the claimed one.
buildResultComputedId(proofData, vk, sel, prf, acct) ==
    [isValid |-> allValid(vk, sel, prf, acct),
     contractClassId |-> vk.computedClassId,
     message |-> IF allValid(vk, sel, prf, acct) THEN "Verified" ELSE "Verification FAILED",
     details |-> [vkMembershipValid |-> vk.isValid,
                  contractClassIdValid |-> vk.isValid,
                  proofValid |-> prf.isValid,
                  selectorValid |-> sel.isValid]]

buildResult(proofData, vk, sel, prf, acct) ==
    [isValid |-> allValid(vk, sel, prf, acct),
     contractClassId |-> proofData.contractClass.id,
     message |-> IF allValid(vk, sel, prf, acct) THEN "Verified" ELSE "Verification FAILED",
     details |-> [vkMembershipValid |-> vk.isValid,
                  contractClassIdValid |-> vk.isValid,
                  proofValid |-> prf.isValid,
                  selectorValid |-> sel.isValid]]

----------------------------------------------------------------------------
(* Whole runs as functions of the input, for statements that compare the
   runs of two payloads *)

Unset == [isValid |-> FALSE, message |-> "unset"]

\* verifyZkProof(proofData, expectedChallenge): its result, or "throw".
verifyZkProof(proofData, expected) ==
    IF challengeMismatch(proofData, expected)
    THEN [threw |-> FALSE, isValid |-> FALSE]
    ELSE LET out == backendVerifyProof(proofData.proof.rawProof, proofData.proof.publicInputs)
         IN [threw |-> (out = "throw"), isValid |-> (out = "true")]

\* verifyOwnershipProof(proofData, expectedChallenge): the four steps and
\* the result.
verifyOwnershipProof(proofData, expected) ==
    LET vk   == verifyVkMembership(proofData)
        sel  == verifySelectorIsAuthwit(proofData)
        prf  == verifyZkProof(proofData, expected)
        acct == identifyAccountType(proofData.vkMembershipProof.leafPreimage.vkHash)
    IN [threw |-> prf.threw,
        vkResult |-> vk,
        result |-> IF prf.threw THEN Unset ELSE buildResult(proofData, vk, sel, prf, acct)]

----------------------------------------------------------------------------
(* Inputs of one run of the verify CLI *)

Challenges == {"c1", "c2"}
ExpectedChallenges == {Undefined, ""} \cup Challenges
FunctionNames == {"verify_private_authwit", "transfer"}

\* What the generator writes for world w (main of generate_proof.ts), with
\* the challenge fields and the proof left to the caller.
assemble(w, rawProof, publicInputs, challenge, functionName) ==
    LET m == getAccountVkMembershipProof(w)
    IN [contractClass |-> m.contractClass,
        proof |-> [rawProof |-> rawProof, publicInputs |-> publicInputs],
        vk |-> [hash |-> FrToString(VkCircuit)],
        vkMembershipProof |-> m.vkMembershipProof,
        challenge |-> challenge,
        metadata |-> [accountType |-> "schnorr", functionName |-> functionName],
        _debug |-> [proofCircuitVkHash |-> FrToString(VkCircuit),
                    accountVkHash |-> m.vkMembershipProof.leafPreimage.vkHash,
                    privateFunctionsRoot |-> m.privateFunctionsRoot]]

OtherSelector(s) == IF s = SelectorAuthwit THEN SelectorOther ELSE SelectorAuthwit

\* A payload as written, or with one of its fields replaced.
Variants(b) ==
    {b}
    \cup {[b EXCEPT !.vkMembershipProof.leafPreimage.vkHash = v] :
            v \in {FrToString(VkForeign), Str("alt", VkAccount), BadString, ProtoKeyString}}
    \cup {[b EXCEPT !.vkMembershipProof.leafPreimage.selector =
                        FrToString(OtherSelector(FrFromString(@)))]}
    \cup {[b EXCEPT !.vkMembershipProof.siblingPath[k] = v] :
            k \in 1..TreeHeight, v \in {FrToString(JunkField)}}
    \cup {[b EXCEPT !.vkMembershipProof.siblingPath[1] = Str("alt", FrFromString(@))]}
    \cup {[b EXCEPT !.vkMembershipProof.siblingPath = SubSeq(@, 1, TreeHeight - 1)]}
    \cup {[b EXCEPT !.vkMembershipProof.leafIndex = j] : j \in 0..(2 * LeafCount - 1)}
    \cup {[b EXCEPT !.contractClass.id = v] :
            v \in {Str("alt", FrFromString(b.contractClass.id)), FrToString(JunkField)}}
    \cup {[b EXCEPT !.contractClass.artifactHash = v] :
            v \in {Str("alt", ArtifactHash), FrToString(ArtifactOther)}}
    \cup {[b EXCEPT !._debug.privateFunctionsRoot = FrToString(JunkField)]}
    \cup {[b EXCEPT !.metadata.accountType = Undefined]}

----------------------------------------------------------------------------
(* State of one run of verify_proof.ts *)

\* What main finds at dataPath: no file, a file that is not JSON, a JSON
\* object without its metadata or proof member, or a complete payload.
PayloadStates == {"missing", "unparseable", "noMetadata", "noProof", "complete"}

VARIABLES
    world,              \* the contract class the payload was generated from
    payloadState,       \* what main finds at dataPath
    proofData,          \* the parsed payload
    expectedChallenge,  \* process.argv[3], or Undefined
    pc,                 \* where the run stands
    vkResult, selectorResult, proofResult, accountTypeResult,
    result,             \* the VerificationResult, once returned
    bb,                 \* Barretenberg instances created / destroyed, verifyProof calls
    pending,            \* an exception on its way to main().catch
    exitCode,           \* process exit code, -1 while running
    trace               \* steps entered and collaborators called, in order

\* State of one run of a generator script (generate_proof.ts)
VARIABLES
    script,             \* "generic" (with --account-type) or "simple" (schnorr only)
    accountType,        \* the account type asked for on the command line
    fault,              \* the step of this run that fails, or "none"
    gpc,                \* where the run stands
    barretenbergAPI,    \* instances created / destroyed, uses after a destroy
    localValid,         \* what the local verifyProof answered
    written,            \* data.json was written
    genPending,         \* an exception on its way to main().catch
    genExit             \* process exit code, -1 while running

\* State of one call of the Hello contract (hello/src/main.nr)
VARIABLES
    helloFn,            \* the function called: "div_prv" or "div_exe"
    dividend, divisor,  \* its arguments
    hintSource,         \* who answers the unconstrained call: divide, or the prover
    hpc,                \* where the call stands
    quotient, remainder,\* the locals of divide, then the pair the caller received
    ret                 \* the value returned, -1 while there is none

\* State of the console interceptor (consoleInterceptor.ts)
VARIABLES
    logCallback,        \* the registered callback, or Null
    installed,          \* console's methods are the interceptors
    lastCall            \* the last console call since the last change, and what it invoked

verifier == <<world, proofData, expectedChallenge, pc, vkResult, selectorResult,
              proofResult, accountTypeResult, result, bb, pending, exitCode,
              payloadState, trace>>

generator == <<script, accountType, fault, gpc, barretenbergAPI, localValid,
               written, genPending, genExit>>

helloVars == <<helloFn, dividend, divisor, hintSource, hpc, quotient, remainder, ret>>

consoleVars == <<logCallback, installed, lastCall>>

\* The programs other than the verifier, the generator, the contract, the
\* interceptor.
otherPrograms == <<generator, helloVars, consoleVars>>
besidesGenerator == <<verifier, helloVars, consoleVars>>
besidesHello == <<verifier, generator, consoleVars>>
besidesConsole == <<verifier, generator, helloVars>>

vars == <<verifier, generator, helloVars, consoleVars>>

Null == "<null>"

\* A console call: the method, its arguments, what it invoked (in order),
\* and whether it ended by an exception.
NoCall == [method |-> "none", args |-> << >>, invoked |-> << >>, threw |-> FALSE]

\* No contract call is running.
HelloIdle ==
    /\ helloFn = "none"
    /\ dividend = 0
    /\ divisor = 1
    /\ hintSource = "divide"
    /\ hpc = "idle"
    /\ quotient = 0
    /\ remainder = 0
    /\ ret = -1

\* The interceptor module is not loaded.
ConsoleIdle ==
    /\ logCallback = Null
    /\ installed = FALSE
    /\ lastCall = NoCall

\* No generator is running.
GeneratorIdle ==
    /\ script = "none"
    /\ accountType = "schnorr"
    /\ fault = "none"
    /\ gpc = "idle"
    /\ barretenbergAPI = [created |-> 0, destroyed |-> 0, usedAfterDestroy |-> FALSE]
    /\ localValid = "unset"
    /\ written = FALSE
    /\ genPending = FALSE
    /\ genExit = -1

inputs == <<world, payloadState, proofData, expectedChallenge>>

Init ==
    /\ world \in Worlds
    /\ expectedChallenge \in ExpectedChallenges
    /\ payloadState \in PayloadStates
    /\ \E kind \in ProofKinds, pi \in Challenges, ch \in Challenges, fn \in FunctionNames :
          LET b == assemble(world, [kind |-> kind, over |-> "c1"], pi, ch, fn)
          IN proofData \in IF payloadState = "complete" THEN Variants(b) ELSE {b}
    /\ pc = "main"
    /\ vkResult = Unset
    /\ selectorResult = Unset
    /\ proofResult = Unset
    /\ accountTypeResult = [accountType |-> Undefined, isKnown |-> FALSE]
    /\ result = Unset
    /\ bb = [created |-> 0, destroyed |-> 0, verifyCalls |-> 0]
    /\ pending = FALSE
    /\ exitCode = -1
    /\ trace = << >>
    /\ GeneratorIdle
    /\ HelloIdle
    /\ ConsoleIdle

\* main: if (!fs.existsSync(dataPath)) { ...; process.exit(1) }
MainFileMissing ==
    /\ pc = "main"
    /\ payloadState = "missing"
    /\ exitCode' = 1
    /\ pc' = "exited"
    /\ UNCHANGED <<otherPrograms, inputs, vkResult, selectorResult, proofResult, accountTypeResult,
                   result, bb, pending, trace>>

\* main: JSON.parse(fs.readFileSync(dataPath, "utf-8")) throws.
MainParseError ==
    /\ pc = "main"
    /\ payloadState = "unparseable"
    /\ pending' = TRUE
    /\ pc' = "thrown"
    /\ UNCHANGED <<otherPrograms, inputs, vkResult, selectorResult, proofResult, accountTypeResult,
                   result, bb, exitCode, trace>>

\* main: the payload is loaded and verifyOwnershipProof is entered; its
\* header reads proofData.metadata.generatedAt before any step.
MainLoad ==
    /\ pc = "main"
    /\ payloadState \in {"noMetadata", "noProof", "complete"}
    /\ pending' = (payloadState = "noMetadata")
    /\ pc' = IF payloadState = "noMetadata" THEN "thrown" ELSE "step1"
    /\ trace' = Append(trace, "verifyOwnershipProof")
    /\ UNCHANGED <<otherPrograms, inputs, vkResult, selectorResult, proofResult, accountTypeResult,
                   result, bb, exitCode>>

\* Step 1: const vkResult = await verifyVkMembership(proofData)
Step1VkMembership ==
    /\ pc = "step1"
    /\ vkResult' = verifyVkMembership(proofData)
    /\ trace' = trace \o <<"step1">>
                   \o (IF verifyVkMembership(proofData).message = "error"
                       THEN << >> ELSE <<"poseidon2Hash">>)
    /\ pc' = "step2"
    /\ UNCHANGED <<otherPrograms, inputs, selectorResult, proofResult, accountTypeResult,
                   result, bb, pending, exitCode>>

\* A step 2 that gives up on the proof once a check has failed.
Step2SelectorShortCircuit ==
    /\ pc = "step2"
    /\ selectorResult' = verifySelectorIsAuthwit(proofData)
    /\ trace' = Append(trace, "step2")
    /\ pc' = IF vkResult.isValid /\ verifySelectorIsAuthwit(proofData).isValid
             THEN "step3" ELSE "step4"
    /\ UNCHANGED <<otherPrograms, inputs, vkResult, proofResult, accountTypeResult,
                   result, bb, pending, exitCode>>

\* Step 2: const selectorResult = verifySelectorIsAuthwit(proofData)
Step2Selector ==
    /\ pc = "step2"
    /\ selectorResult' = verifySelectorIsAuthwit(proofData)
    /\ trace' = Append(trace, "step2")
    /\ pc' = "step3"
    /\ UNCHANGED <<otherPrograms, inputs, vkResult, proofResult, accountTypeResult,
                   result, bb, pending, exitCode>>

\* A challenge guard that takes a matching challenge for a verified proof.
ZkChallengeCheckTrusting ==
    /\ pc = "step3"
    /\ IF Truthy(expectedChallenge)
       THEN /\ proofResult' = [isValid |-> (proofData.challenge = expectedChallenge),
                               message |-> "Challenge checked"]
            /\ pc' = "step4"
       ELSE /\ pc' = "bbNew"
            /\ UNCHANGED proofResult
    /\ trace' = Append(trace, "step3")
    /\ UNCHANGED <<otherPrograms, inputs, vkResult, selectorResult, accountTypeResult,
                   result, bb, pending, exitCode>>

\* Step 3, verifyZkProof up to its first await: the challenge guard.
ZkChallengeCheck ==
    /\ pc = "step3"
    /\ IF challengeMismatch(proofData, expectedChallenge)
       THEN /\ proofResult' = [isValid |-> FALSE, message |-> "Challenge mismatch"]
            /\ pc' = "step4"
       ELSE /\ pc' = "bbNew"
            /\ UNCHANGED proofResult
    /\ trace' = Append(trace, "step3")
    /\ UNCHANGED <<otherPrograms, inputs, vkResult, selectorResult, accountTypeResult,
                   result, bb, pending, exitCode>>

\* await Barretenberg.new({ threads: 1 })
ZkBarretenbergNew ==
    /\ pc = "bbNew"
    /\ bb' = [bb EXCEPT !.created = @ + 1]
    /\ trace' = Append(trace, "Barretenberg.new")
    /\ pc' = "verify"
    /\ UNCHANGED <<otherPrograms, inputs, vkResult, selectorResult, proofResult, accountTypeResult,
                   result, pending, exitCode>>

\* try { ...; await backend.verifyProof(proof, { verifierTarget: "noir-recursive" }) }
\* Without a proof member, reading proofData.proof.rawProof throws before the call.
ZkVerifyProof ==
    /\ pc = "verify"
    /\ IF payloadState = "noProof"
       THEN /\ pending' = TRUE
            /\ UNCHANGED <<proofResult, bb, trace>>
       ELSE /\ bb' = [bb EXCEPT !.verifyCalls = @ + 1]
            /\ trace' = Append(trace, "verifyProof")
            /\ LET out == backendVerifyProof(proofData.proof.rawProof,
                                             proofData.proof.publicInputs)
               IN IF out = "throw"
                  THEN /\ pending' = TRUE
                       /\ UNCHANGED proofResult
                  ELSE /\ proofResult' = [isValid |-> (out = "true"),
                                          message |-> IF out = "true" THEN "verified"
                                                      ELSE "failed"]
                       /\ UNCHANGED pending
    /\ pc' = "destroy"
    /\ UNCHANGED <<otherPrograms, inputs, vkResult, selectorResult, accountTypeResult,
                   result, exitCode>>

\* A finally block that ends the try with the exception swallowed.
ZkDestroySwallowing ==
    /\ pc = "destroy"
    /\ bb' = [bb EXCEPT !.destroyed = @ + 1]
    /\ trace' = Append(trace, "destroy")
    /\ pc' = "step4"
    /\ UNCHANGED <<otherPrograms, inputs, vkResult, selectorResult, proofResult, accountTypeResult,
                   result, pending, exitCode>>

\* finally { await barretenbergAPI.destroy() }; an exception goes on to the
\* caller, where nothing catches it before main().catch.
ZkDestroy ==
    /\ pc = "destroy"
    /\ bb' = [bb EXCEPT !.destroyed = @ + 1]
    /\ trace' = Append(trace, "destroy")
    /\ pc' = IF pending THEN "thrown" ELSE "step4"
    /\ UNCHANGED <<otherPrograms, inputs, vkResult, selectorResult, proofResult, accountTypeResult,
                   result, pending, exitCode>>

\* A step 4 that asks an Aztec node for the class behind the account type.
Step4IdentifyViaNode ==
    /\ pc = "step4"
    /\ accountTypeResult' = identifyAccountType(proofData.vkMembershipProof.leafPreimage.vkHash)
    /\ trace' = trace \o <<"step4", "node.getContractClass">>
    /\ pc' = "final"
    /\ UNCHANGED <<otherPrograms, inputs, vkResult, selectorResult, proofResult,
                   result, bb, pending, exitCode>>

\* Step 4: identifyAccountType(proofData.vkMembershipProof.leafPreimage.vkHash)
Step4Identify ==
    /\ pc = "step4"
    /\ accountTypeResult' = identifyAccountType(proofData.vkMembershipProof.leafPreimage.vkHash)
    /\ trace' = Append(trace, "step4")
    /\ pc' = "final"
    /\ UNCHANGED <<otherPrograms, inputs, vkResult, selectorResult, proofResult,
                   result, bb, pending, exitCode>>

\* The final result is built and returned.
Return ==
    /\ pc = "final"
    /\ result' = buildResult(proofData, vkResult, selectorResult, proofResult, accountTypeResult)
    /\ pc' = "returned"
    /\ UNCHANGED <<otherPrograms, inputs, vkResult, selectorResult, proofResult, accountTypeResult,
                   bb, pending, exitCode, trace>>

\* An exit that reports success whatever the result.
MainExitAlwaysZero ==
    /\ pc = "returned"
    /\ exitCode' = 0
    /\ pc' = "exited"
    /\ UNCHANGED <<otherPrograms, inputs, vkResult, selectorResult, proofResult, accountTypeResult,
                   result, bb, pending, trace>>

\* process.exit(result.isValid ? 0 : 1)
MainExit ==
    /\ pc = "returned"
    /\ exitCode' = IF result.isValid THEN 0 ELSE 1
    /\ pc' = "exited"
    /\ UNCHANGED <<otherPrograms, inputs, vkResult, selectorResult, proofResult, accountTypeResult,
                   result, bb, pending, trace>>

\* main().catch((err) => { ...; process.exit(1) })
MainCatch ==
    /\ pc = "thrown"
    /\ exitCode' = 1
    /\ pc' = "exited"
    /\ UNCHANGED <<otherPrograms, inputs, vkResult, selectorResult, proofResult, accountTypeResult,
                   result, bb, pending, trace>>

Next ==
    \/ MainFileMissing
    \/ MainParseError
    \/ MainLoad
    \/ Step1VkMembership
    \/ Step2Selector
    \/ ZkChallengeCheck
    \/ ZkBarretenbergNew
    \/ ZkVerifyProof
    \/ ZkDestroy
    \/ Step4Identify
    \/ Return
    \/ MainExit
    \/ MainCatch

Spec == Init /\ [][Next]_vars

Returned == pc \in {"returned", "exited"} /\ result # Unset

----------------------------------------------------------------------------
(* Properties *)

\* C1: whenever verifyOwnershipProof returns, result.isValid is true exactly
\* when vkMembershipValid, selectorValid and proofValid are all true; the
\* outcome of the account-type identification (known or unknown type) does
\* not enter isValid.
C1_IsValidIffThreeChecks ==
    Returned =>
        /\ result.isValid <=> (/\ result.details.vkMembershipValid
                               /\ result.details.selectorValid
                               /\ result.details.proofValid)
        /\ \A known \in BOOLEAN :
              buildResult(proofData, vkResult, selectorResult, proofResult,
                          [accountType |-> Undefined, isKnown |-> known]).isValid
                  = result.isValid

C1_Witness ==
    /\ pc = "returned"
    /\ result.isValid
    /\ ~accountTypeResult.isKnown

\* The run that finds a "known" account type (the lookup answered by the
\* prototype) and is still decided by the three checks alone.
C1_WitnessRegistryHit ==
    /\ pc = "returned"
    /\ accountTypeResult.isKnown
    /\ ~result.isValid

\* Step 1 has just run and produced a root and a class id (no parse error).
Step1Computed == pc = "step2" /\ vkResult.message # "error"

\* C2: privateFunctionsRoot is never taken from the payload: a payload that
\* differs only in the root the prover printed (_debug.privateFunctionsRoot)
\* gets the same VerificationResult, the same computedClassId and the same
\* computedPrivateFunctionsRoot.
DebugRoots == {FrToString(JunkField), FrToString(TreeRoot(Leaves(world)))}

C2_RootNeverTakenOnFaith ==
    Returned =>
        \A r \in DebugRoots :
            LET other == verifyOwnershipProof(
                             [proofData EXCEPT !._debug.privateFunctionsRoot = r],
                             expectedChallenge)
            IN /\ ~other.threw
               /\ other.result = result
               /\ other.vkResult.computedClassId = vkResult.computedClassId
               /\ other.vkResult.computedPrivateFunctionsRoot
                      = vkResult.computedPrivateFunctionsRoot

\* A valid run whose payload carries a wrong root in _debug.
C2_Witness ==
    /\ pc = "returned"
    /\ result.isValid
    /\ proofData._debug.privateFunctionsRoot = FrToString(JunkField)

\* The membership proof, artifact hash and bytecode commitment are the ones
\* the generator derives from the tree of the world.
HonestMembership ==
    LET m == getAccountVkMembershipProof(world)
    IN /\ proofData.vkMembershipProof = m.vkMembershipProof
       /\ proofData.contractClass.artifactHash = m.contractClass.artifactHash
       /\ proofData.contractClass.publicBytecodeCommitment
              = m.contractClass.publicBytecodeCommitment

\* C3: for the tree of every world (every leaf index, either preimage), the
\* leaf preimage with its correct sibling path and index gives
\* computedPrivateFunctionsRoot = the root of the tree and computedClassId =
\* the class id of (artifactHash, that root, publicBytecodeCommitment).
C3_RoundTripMembership ==
    (pc = "step2" /\ HonestMembership) =>
        LET R == TreeRoot(Leaves(world))
        IN /\ vkResult.computedPrivateFunctionsRoot = FrToString(R)
           /\ vkResult.computedClassId
                  = FrToString(<<"HS", "CONTRACT_LEAF", <<ArtifactHash, R, BytecodeCommitment>> >>)

C3_Witness ==
    /\ pc = "step2"
    /\ HonestMembership
    /\ world.index = LeafCount - 1
    /\ vkResult.isValid

\* C4 (as claimed): whenever leafPreimage.selector is not the selector of
\* verify_private_authwit, the returned result has selectorValid = FALSE and
\* isValid = FALSE, whatever metadata.functionName says.
C4_SelectorMismatchRejected ==
    (Returned /\ proofData.vkMembershipProof.leafPreimage.selector
                     # FrToString(SelectorAuthwit)) =>
        /\ ~result.details.selectorValid
        /\ ~result.isValid

\* C5 (as claimed): whenever an expectedChallenge is supplied (any string)
\* and differs from the payload's challenge, no Barretenberg instance is
\* created, verifyProof is never called, and the returned result has
\* proofValid = FALSE and isValid = FALSE.
C5_ChallengeReplayRejected ==
    (expectedChallenge # Undefined /\ expectedChallenge # proofData.challenge) =>
        /\ bb.created = 0
        /\ bb.verifyCalls = 0
        /\ Returned => (~result.details.proofValid /\ ~result.isValid)

\* C6 (as claimed): when an expectedChallenge e is supplied, proofValid is
\* TRUE only if the challenge the proof proves over (the one in
\* proof.publicInputs) equals e.  Stated for a non-empty e, the case in
\* which the verifier does compare challenges.
C6_AntiReplayBinding ==
    (Returned /\ Truthy(expectedChallenge) /\ result.details.proofValid) =>
        proofData.proof.publicInputs = expectedChallenge

\* C7 (as claimed): isValid is TRUE only if the verification key under which
\* the ZK proof was checked (that of the circuit the verifier loaded) is the
\* one the membership proof commits to.
C7_VkBinding ==
    (Returned /\ result.isValid) =>
        FrFromString(proofData.vkMembershipProof.leafPreimage.vkHash) = VkCircuit

\* Field elements a tampering prover may write in place of a value.
FieldPool ==
    {VkAccount, VkForeign, VkCircuit, JunkField, SelectorAuthwit, Fr(100),
     TreeRoot(Leaves(world))}
    \cup {Leaves(world)[j] : j \in 0..(LeafCount - 1)}

\* The class id verifyVkMembershipAndComputeClassId computes for the
\* payload's class components and the membership proof mp.
classIdOf(mp) ==
    verifyVkMembershipAndComputeClassId(mp, proofData.contractClass.artifactHash,
        proofData.contractClass.publicBytecodeCommitment).computedClassId

rootOf(mp) ==
    verifyVkMembershipAndComputeClassId(mp, proofData.contractClass.artifactHash,
        proofData.contractClass.publicBytecodeCommitment).computedPrivateFunctionsRoot

\* C8: from a membership proof whose recomputed class id is c (and so from
\* every proof whose recomputed id equals the claimed id), replacing
\* leafPreimage.vkHash by a different field element, or one siblingPath
\* entry by a different field element, gives a computedClassId other than c,
\* hence other than the claimed id when the proof was valid.
C8_TamperContent ==
    Step1Computed =>
        LET mp == proofData.vkMembershipProof
            c  == FrFromString(vkResult.computedClassId)
            differs(mp2) ==
                /\ classIdOf(mp2) # c
                /\ vkResult.isValid => FrToString(classIdOf(mp2)) # proofData.contractClass.id
        IN /\ \A v \in FieldPool :
                v # FrFromString(mp.leafPreimage.vkHash) =>
                    differs([mp EXCEPT !.leafPreimage.vkHash = FrToString(v)])
           /\ \A k \in 1..Len(mp.siblingPath) : \A v \in FieldPool :
                v # FrFromString(mp.siblingPath[k]) =>
                    differs([mp EXCEPT !.siblingPath[k] = FrToString(v)])

C8_Witness ==
    /\ pc = "step2"
    /\ vkResult.isValid
    /\ Len(proofData.vkMembershipProof.siblingPath) = TreeHeight

\* Leaf indices a tampering prover may write.
IndexPool == 0..(2 * LeafCount - 1)

RECURSIVE accumulatorAfter(_, _, _, _)
accumulatorAfter(leaf, siblings, leafIndex, n) ==
    IF n = 0 THEN leaf
    ELSE LET acc == accumulatorAfter(leaf, siblings, leafIndex, n - 1)
             bit == (leafIndex \div Pow2(n - 1)) % 2
         IN IF bit = 0 THEN <<"H2", acc, siblings[n]>>
                       ELSE <<"H2", siblings[n], acc>>

\* C10: the root reconstruction starts from the leaf hash and, level by
\* level in the order of siblingPath, uses bit i of leafIndex, least
\* significant first: bit 0 gives hashPair(accumulator, siblings[i]), bit 1
\* gives hashPair(siblings[i], accumulator); the result is the accumulator
\* after the last level.
C10_IndexBitConvention ==
    Step1Computed =>
        LET mp   == proofData.vkMembershipProof
            leaf == <<"HS", "FUNCTION_LEAF",
                      <<FrFromString(mp.leafPreimage.selector),
                        FrFromString(mp.leafPreimage.vkHash)>> >>
            sibs == [i \in 1..Len(mp.siblingPath) |-> FrFromString(mp.siblingPath[i])]
        IN vkResult.computedPrivateFunctionsRoot
               = FrToString(accumulatorAfter(leaf, sibs, mp.leafIndex, Len(sibs)))

\* A run on a path where both bit values occur (index 1 = bits 1, 0, ...).
C10_Witness ==
    /\ pc = "step2"
    /\ vkResult.isValid
    /\ proofData.vkMembershipProof.leafIndex = 1
    /\ Len(proofData.vkMembershipProof.siblingPath) >= 2

MalformedField(p) ==
    \/ \E i \in 1..Len(p.vkMembershipProof.siblingPath) :
          FrFromStringThrows(p.vkMembershipProof.siblingPath[i])
    \/ FrFromStringThrows(p.contractClass.artifactHash)
    \/ FrFromStringThrows(p.contractClass.publicBytecodeCommitment)
    \/ FrFromStringThrows(p.vkMembershipProof.leafPreimage.selector)
    \/ FrFromStringThrows(p.vkMembershipProof.leafPreimage.vkHash)

\* The payload lacks a required member, has a field element outside the
\* canonical range, or a sibling path that is not of the tree height.
Malformed ==
    \/ payloadState \in {"noMetadata", "noProof"}
    \/ /\ payloadState = "complete"
       /\ \/ MalformedField(proofData)
          \/ Len(proofData.vkMembershipProof.siblingPath) # TreeHeight

\* C12 (as claimed): a malformed payload aborts the verification with an
\* error before any hashing or proof check: no step after the first is
\* entered, no hash is computed, no backend is created, no result returned.
C12_MalformedAborts ==
    Malformed =>
        /\ pc \in {"main", "step1", "thrown", "exited"}
        /\ bb.created = 0
        /\ result = Unset
        /\ \A i \in 1..Len(trace) : trace[i] \in {"verifyOwnershipProof", "step1"}

\* A complete payload whose field elements parse, whose sibling path has the
\* tree height, whose index addresses a leaf, and whose proof bytes the
\* backend can read.
WellFormed ==
    /\ payloadState = "complete"
    /\ ~MalformedField(proofData)
    /\ Len(proofData.vkMembershipProof.siblingPath) = TreeHeight
    /\ proofData.vkMembershipProof.leafIndex < Pow2(TreeHeight)
    /\ proofData.proof.rawProof.kind # "garbage"

\* The recomputed class id is another field element than the claimed one.
ClassIdDiffers ==
    classIdOf(proofData.vkMembershipProof) # FrFromString(proofData.contractClass.id)

\* C13 (as claimed): on a well-formed payload verifyOwnershipProof never
\* throws, and it returns proofValid = false when the backend answers false
\* or a supplied expected challenge differs from the payload's,
\* vkMembershipValid = false when the class id differs, selectorValid =
\* false when the function name differs, each with isValid = false and the
\* failure message.
C13_MismatchesAreValues ==
    WellFormed =>
        /\ pc # "thrown"
        /\ Returned =>
              /\ ClassIdDiffers => ~result.details.vkMembershipValid /\ ~result.isValid
              /\ proofData.metadata.functionName # "verify_private_authwit"
                    => ~result.details.selectorValid /\ ~result.isValid
              /\ backendVerifyProof(proofData.proof.rawProof,
                                    proofData.proof.publicInputs) = "false"
                    => ~result.details.proofValid /\ ~result.isValid
              /\ (expectedChallenge # Undefined /\ expectedChallenge # proofData.challenge)
                    => ~result.details.proofValid /\ ~result.isValid
              /\ ~result.isValid => result.message = "Verification FAILED"

\* backend.verifyProof was called on proof bytes it cannot parse, and threw.
BackendThrew ==
    /\ payloadState = "complete"
    /\ proofData.proof.rawProof.kind = "garbage"
    /\ \E i \in 1..Len(trace) : trace[i] = "verifyProof"

\* C14 (as claimed): when the backend throws while verifying, the exception
\* does not leave verifyOwnershipProof; a result with proofValid = false and
\* isValid = false is returned.
C14_BackendThrowFolded ==
    BackendThrew =>
        /\ pc # "thrown"
        /\ pc = "exited" => (result # Unset /\ ~result.details.proofValid /\ ~result.isValid)

\* C14 (amended): when the backend throws while verifying, the Barretenberg
\* instance is destroyed and the exception leaves verifyOwnershipProof: step 4
\* is not entered, no VerificationResult is ever returned, and the run ends
\* in main().catch with exit code 1.  The missing result tells it apart from
\* an ordinary invalid proof, which returns one with proofValid = false.
C14_BackendThrowPropagates ==
    BackendThrew =>
        /\ pending
        /\ pc \in {"destroy", "thrown", "exited"}
        /\ result = Unset
        /\ proofResult = Unset
        /\ \A i \in 1..Len(trace) : trace[i] # "step4"
        /\ pc \in {"thrown", "exited"} => bb.destroyed = bb.created /\ bb.created = 1
        /\ pc = "exited" => exitCode = 1

\* A run whose backend threw has ended.
C14_Witness ==
    /\ BackendThrew
    /\ pc = "exited"

\* C15: the CLI exits with code 0 exactly when verifyOwnershipProof returned
\* a result with isValid = true; a failed check, a missing payload file, an
\* unparseable payload and an error thrown during verification all exit
\* with code 1.
C15_ExitCode ==
    /\ pc # "exited" => exitCode = -1
    /\ pc = "exited" =>
          /\ exitCode \in {0, 1}
          /\ exitCode = 0 <=> (result # Unset /\ result.isValid)
          /\ payloadState \in {"missing", "unparseable", "noMetadata", "noProof"}
                => exitCode = 1
          /\ pending => exitCode = 1

\* A run that exited with code 0.
C15_Witness ==
    /\ pc = "exited"
    /\ exitCode = 0
    /\ result.isValid

\* Runs that exited with code 1: a returned result with a failed check, no
\* payload file, an unparseable payload, an error thrown by the backend.
C15_WitnessFailedCheck == pc = "exited" /\ exitCode = 1 /\ result # Unset
C15_WitnessMissingFile == pc = "exited" /\ exitCode = 1 /\ payloadState = "missing"
C15_WitnessUnparseable == pc = "exited" /\ exitCode = 1 /\ payloadState = "unparseable"
C15_WitnessThrown == pc = "exited" /\ exitCode = 1 /\ BackendThrew

\* The entries of trace that mark the entry of verifyOwnershipProof and of
\* its steps; every other entry is a call to a collaborator.
StepMarks == {"verifyOwnershipProof", "step1", "step2", "step3", "step4"}

\* The hash primitives and the local proving backend.
LocalCollaborators == {"poseidon2Hash", "Barretenberg.new", "verifyProof", "destroy"}

\* C16: on every path through verifyOwnershipProof the only collaborators
\* called are the hash primitives and the local proving backend (create,
\* verifyProof, destroy); no node, PXE or other service is called.
C16_OfflineVerification ==
    \A i \in 1..Len(trace) : trace[i] \notin StepMarks => trace[i] \in LocalCollaborators

\* A returned run that hashed, created a backend, verified and destroyed it.
C16_Witness ==
    /\ pc = "returned"
    /\ \A c \in LocalCollaborators : \E i \in 1..Len(trace) : trace[i] = c
    /\ trace[Len(trace)] = "step4"

\* The payload generate_proof.ts writes for the schnorr account: the class
\* and membership proof of verify_private_authwit, a proof made over the
\* challenge, and the function name, all unmodified.
GeneratedPayload ==
    /\ payloadState = "complete"
    /\ world.selector = SelectorAuthwit
    /\ \E c \in Challenges :
          proofData = assemble(world, [kind |-> "genuine", over |-> c], c, c,
                               "verify_private_authwit")

\* C18: the generator's payload fed unmodified to the verifier is never
\* thrown on; it returns vkMembershipValid and selectorValid true, and
\* isValid true when the expected challenge is absent or the payload's and
\* the backend accepts the proof.
C18_GenerateThenVerify ==
    GeneratedPayload =>
        /\ pc # "thrown"
        /\ pc \in {"step2", "step3"} => vkResult.isValid
        /\ Returned =>
              /\ result.details.vkMembershipValid
              /\ result.details.selectorValid
              /\ (/\ expectedChallenge \in {Undefined, proofData.challenge}
                  /\ backendVerifyProof(proofData.proof.rawProof,
                                        proofData.proof.publicInputs) = "true")
                    => result.isValid

\* The generator's payload was verified against its own challenge and accepted.
C18_Witness ==
    /\ GeneratedPayload
    /\ expectedChallenge = proofData.challenge
    /\ pc = "exited"
    /\ result.isValid
    /\ exitCode = 0

\* C19: for every input whose field elements parse,
\* verifyVkMembershipAndComputeClassId returns the root reconstructed from
\* the function-leaf hash of (selector, vkHash), the sibling path and the
\* index, and the contract-class hash of (A, that root, B); it returns both
\* whether or not the claimed id agrees.
C19_ReturnsRootAndClassId ==
    (pc = "step2" /\ ~MalformedField(proofData)) =>
        LET mp   == proofData.vkMembershipProof
            leaf == <<"HS", "FUNCTION_LEAF",
                      <<FrFromString(mp.leafPreimage.selector),
                        FrFromString(mp.leafPreimage.vkHash)>> >>
            sibs == [i \in 1..Len(mp.siblingPath) |-> FrFromString(mp.siblingPath[i])]
            root == accumulatorAfter(leaf, sibs, mp.leafIndex, Len(sibs))
            out  == verifyVkMembershipAndComputeClassId(mp,
                        proofData.contractClass.artifactHash,
                        proofData.contractClass.publicBytecodeCommitment)
        IN /\ ~out.threw
           /\ out.computedPrivateFunctionsRoot = root
           /\ out.computedClassId
                = <<"HS", "CONTRACT_LEAF",
                    <<FrFromString(proofData.contractClass.artifactHash), root,
                      FrFromString(proofData.contractClass.publicBytecodeCommitment)>> >>
           /\ vkResult.computedClassId = FrToString(out.computedClassId)
           /\ vkResult.computedPrivateFunctionsRoot = FrToString(root)

\* Both values came back although the claimed id is another element.
C19_Witness ==
    /\ pc = "step2"
    /\ proofData.contractClass.id = FrToString(JunkField)
    /\ vkResult.message = "mismatch"
    /\ vkResult.computedClassId # EmptyString

\* C20 (as claimed): vkMembershipValid is true exactly when the recomputed
\* class id and the claimed id are the same field element, whatever the
\* spelling of the claimed id.
C20_FieldEquality ==
    (Returned /\ vkResult.message # "error") =>
        (result.details.vkMembershipValid
            <=> classIdOf(proofData.vkMembershipProof)
                   = FrFromString(proofData.contractClass.id))

\* C20 (amended): vkMembershipValid is true exactly when the recomputation
\* succeeds and the claimed id is the canonical string (toString) of the
\* recomputed class id; a claimed id that spells the same element otherwise
\* gives false.  When it is false after a recomputation, the computed id is
\* reported next to the claimed one.
C20_CanonicalStringEquality ==
    Returned =>
        /\ result.details.vkMembershipValid
              <=> /\ vkResult.message # "error"
                  /\ proofData.contractClass.id
                        = FrToString(classIdOf(proofData.vkMembershipProof))
        /\ (~result.details.vkMembershipValid /\ vkResult.message # "error")
              => /\ vkResult.computedClassId
                       = FrToString(classIdOf(proofData.vkMembershipProof))
                 /\ result.contractClassId = proofData.contractClass.id

\* The claimed id spells the recomputed element in another way, and step 1
\* answered false.
C20_Witness ==
    /\ Returned
    /\ vkResult.message = "mismatch"
    /\ proofData.contractClass.id.enc = "alt"
    /\ FrFromString(proofData.contractClass.id) = classIdOf(proofData.vkMembershipProof)
    /\ ~result.details.vkMembershipValid

\* Field elements that may stand in place of a component of the class id.
ComponentPool == FieldPool \cup {ArtifactHash, ArtifactOther, BytecodeCommitment}

\* C21: with the other two components fixed, replacing artifactHash,
\* privateFunctionsRoot or publicBytecodeCommitment by a different field
\* element changes computeContractClassId; on the components of the
\* reference class it gives the reference class id.
C21_ClassIdBindsComponents ==
    Step1Computed =>
        LET a == FrFromString(proofData.contractClass.artifactHash)
            r == FrFromString(vkResult.computedPrivateFunctionsRoot)
            b == FrFromString(proofData.contractClass.publicBytecodeCommitment)
            c == computeContractClassId(a, r, b)
            ref == getContractClassWithMembershipProof(world).contractClass
        IN /\ c = FrFromString(vkResult.computedClassId)
           /\ \A f \in ComponentPool :
                 /\ f # a => computeContractClassId(f, r, b) # c
                 /\ f # r => computeContractClassId(a, f, b) # c
                 /\ f # b => computeContractClassId(a, r, f) # c
           /\ computeContractClassId(ref.artifactHash, ref.privateFunctionsRoot,
                                     ref.publicBytecodeCommitment) = ref.id

\* Step 1 computed a class id from the components of the reference class.
C21_Witness ==
    /\ Step1Computed
    /\ HonestMembership
    /\ vkResult.computedClassId
          = FrToString(getContractClassWithMembershipProof(world).contractClass.id)

\* The step marks of trace, in the order they were entered.
StepsEntered == SelectSeq(trace, LAMBDA e : e \in StepMarks)

FourSteps == <<"verifyOwnershipProof", "step1", "step2", "step3", "step4">>

C23_ProofValidIsBackendAnswer ==
    Returned =>
        LET out == backendVerifyProof(proofData.proof.rawProof, proofData.proof.publicInputs)
        IN /\ expectedChallenge \in {Undefined, proofData.challenge}
                 => /\ result.details.proofValid = (out = "true")
                    /\ bb.verifyCalls = 1
           /\ result.details.proofValid => (out = "true" /\ bb.verifyCalls = 1)

\* The supplied challenge matched and the backend still said no.
C23_Witness ==
    /\ Returned
    /\ expectedChallenge = proofData.challenge
    /\ bb.verifyCalls = 1
    /\ ~result.details.proofValid

C23_WitnessAccepted ==
    /\ Returned
    /\ expectedChallenge = Undefined
    /\ result.details.proofValid

----------------------------------------------------------------------------
(* generate_proof.ts: one run of a generator script *)

\* No verifier is running.
VerifierIdle ==
    /\ world = [index |-> 0, selector |-> SelectorAuthwit]
    /\ payloadState = "complete"
    /\ proofData = assemble(world, [kind |-> "genuine", over |-> "c1"], "c1", "c1",
                            "verify_private_authwit")
    /\ expectedChallenge = Undefined
    /\ pc = "idle"
    /\ vkResult = Unset
    /\ selectorResult = Unset
    /\ proofResult = Unset
    /\ accountTypeResult = [accountType |-> Undefined, isKnown |-> FALSE]
    /\ result = Unset
    /\ bb = [created |-> 0, destroyed |-> 0, verifyCalls |-> 0]
    /\ pending = FALSE
    /\ exitCode = -1
    /\ trace = << >>

Scripts == {"generic", "simple"}

\* --account-type values: the supported one, the announced one, any other.
AccountTypes == {"schnorr", "password", "other"}

\* The step that fails in a run: the circuit execution, generateProof, the
\* local verifyProof (by throwing, or by answering false),
\* generateRecursiveProofArtifacts, the membership proof, the file write.
Faults == {"none", "execute", "generateProof", "verifyThrows", "verifyFalse",
           "artifacts", "membership", "write"}

GenInit ==
    /\ VerifierIdle
    /\ HelloIdle
    /\ ConsoleIdle
    /\ script \in Scripts
    /\ accountType \in IF script = "generic" THEN AccountTypes ELSE {"schnorr"}
    /\ fault \in IF script = "generic" THEN Faults ELSE Faults \ {"membership"}
    /\ gpc = "main"
    /\ barretenbergAPI = [created |-> 0, destroyed |-> 0, usedAfterDestroy |-> FALSE]
    /\ localValid = "unset"
    /\ written = FALSE
    /\ genPending = FALSE
    /\ genExit = -1

genInputs == <<script, accountType, fault>>

\* Where an exception goes: to the finally block of the generic main, or
\* straight to main().catch in the simple script, which has no try.
throwTo(s) == IF s = "generic" THEN "finally" ELSE "thrown"

\* The backend is used through the instance.
useBackend(api) == [api EXCEPT !.usedAfterDestroy = @ \/ (api.destroyed > 0)]

\* const barretenbergAPI = await Barretenberg.new({ threads: 1 })
GenBarretenbergNew ==
    /\ gpc = "main"
    /\ barretenbergAPI' = [barretenbergAPI EXCEPT !.created = @ + 1]
    /\ gpc' = IF script = "generic" THEN "switch" ELSE "execute"
    /\ UNCHANGED <<besidesGenerator, genInputs, localValid, written, genPending, genExit>>

\* switch (accountType): only "schnorr" goes on to generateSchnorrProof.
GenSwitchAccountType ==
    /\ gpc = "switch"
    /\ IF accountType = "schnorr"
       THEN gpc' = "execute" /\ UNCHANGED genPending
       ELSE gpc' = throwTo(script) /\ genPending' = TRUE
    /\ UNCHANGED <<besidesGenerator, genInputs, barretenbergAPI, localValid, written, genExit>>

\* const { witness } = await noir.execute(circuitInputs)
GenExecute ==
    /\ gpc = "execute"
    /\ IF fault = "execute"
       THEN gpc' = throwTo(script) /\ genPending' = TRUE
       ELSE gpc' = "generateProof" /\ UNCHANGED genPending
    /\ UNCHANGED <<besidesGenerator, genInputs, barretenbergAPI, localValid, written, genExit>>

\* const proofData = await backend.generateProof(witness, ...)
GenGenerateProof ==
    /\ gpc = "generateProof"
    /\ barretenbergAPI' = useBackend(barretenbergAPI)
    /\ IF fault = "generateProof"
       THEN gpc' = throwTo(script) /\ genPending' = TRUE
       ELSE gpc' = "verifyLocal" /\ UNCHANGED genPending
    /\ UNCHANGED <<besidesGenerator, genInputs, localValid, written, genExit>>

\* A local verification whose answer is not looked at.
GenVerifyLocalUnchecked ==
    /\ gpc = "verifyLocal"
    /\ barretenbergAPI' = useBackend(barretenbergAPI)
    /\ localValid' = IF fault = "verifyThrows" THEN localValid
                     ELSE IF fault = "verifyFalse" THEN "false" ELSE "true"
    /\ IF fault = "verifyThrows"
       THEN gpc' = throwTo(script) /\ genPending' = TRUE
       ELSE gpc' = "artifacts" /\ UNCHANGED genPending
    /\ UNCHANGED <<besidesGenerator, genInputs, written, genExit>>

\* const isValid = await backend.verifyProof(proofData, ...);
\* if (!isValid) throw new Error("Proof verification failed locally")
GenVerifyLocal ==
    /\ gpc = "verifyLocal"
    /\ barretenbergAPI' = useBackend(barretenbergAPI)
    /\ localValid' = IF fault = "verifyThrows" THEN localValid
                     ELSE IF fault = "verifyFalse" THEN "false" ELSE "true"
    /\ IF fault \in {"verifyThrows", "verifyFalse"}
       THEN gpc' = throwTo(script) /\ genPending' = TRUE
       ELSE gpc' = "artifacts" /\ UNCHANGED genPending
    /\ UNCHANGED <<besidesGenerator, genInputs, written, genExit>>

\* await backend.generateRecursiveProofArtifacts(...)
GenRecursiveArtifacts ==
    /\ gpc = "artifacts"
    /\ barretenbergAPI' = useBackend(barretenbergAPI)
    /\ IF fault = "artifacts"
       THEN gpc' = throwTo(script) /\ genPending' = TRUE
       ELSE /\ gpc' = IF script = "generic" THEN "membership" ELSE "write"
            /\ UNCHANGED genPending
    /\ UNCHANGED <<besidesGenerator, genInputs, localValid, written, genExit>>

\* const membershipData = await getAccountVkMembershipProof(accountType)
GenMembership ==
    /\ gpc = "membership"
    /\ IF fault = "membership" \/ accountType # "schnorr"
       THEN gpc' = throwTo(script) /\ genPending' = TRUE
       ELSE gpc' = "write" /\ UNCHANGED genPending
    /\ UNCHANGED <<besidesGenerator, genInputs, barretenbergAPI, localValid, written, genExit>>

\* fs.writeFileSync("data.json", ...)
GenWrite ==
    /\ gpc = "write"
    /\ IF fault = "write"
       THEN gpc' = throwTo(script) /\ genPending' = TRUE /\ UNCHANGED written
       ELSE /\ written' = TRUE
            /\ gpc' = IF script = "generic" THEN "finally" ELSE "destroy"
            /\ UNCHANGED genPending
    /\ UNCHANGED <<besidesGenerator, genInputs, barretenbergAPI, localValid, genExit>>

\* A finally block that destroys the instance only when nothing was thrown.
GenFinallyOnSuccessOnly ==
    /\ gpc = "finally"
    /\ barretenbergAPI' = IF genPending THEN barretenbergAPI
                          ELSE [barretenbergAPI EXCEPT !.destroyed = @ + 1]
    /\ gpc' = IF genPending THEN "thrown" ELSE "exit"
    /\ UNCHANGED <<besidesGenerator, genInputs, localValid, written, genPending, genExit>>

\* generic main: finally { await barretenbergAPI.destroy() }
GenFinally ==
    /\ gpc = "finally"
    /\ barretenbergAPI' = [barretenbergAPI EXCEPT !.destroyed = @ + 1]
    /\ gpc' = IF genPending THEN "thrown" ELSE "exit"
    /\ UNCHANGED <<besidesGenerator, genInputs, localValid, written, genPending, genExit>>

\* simple main: await barretenbergAPI.destroy(), on the path that did not throw.
GenDestroy ==
    /\ gpc = "destroy"
    /\ barretenbergAPI' = [barretenbergAPI EXCEPT !.destroyed = @ + 1]
    /\ gpc' = "exit"
    /\ UNCHANGED <<besidesGenerator, genInputs, localValid, written, genPending, genExit>>

\* process.exit(0)
GenExit ==
    /\ gpc = "exit"
    /\ genExit' = 0
    /\ gpc' = "exited"
    /\ UNCHANGED <<besidesGenerator, genInputs, barretenbergAPI, localValid, written, genPending>>

\* main().catch((err) => { ...; process.exit(1) })
GenCatch ==
    /\ gpc = "thrown"
    /\ genExit' = 1
    /\ gpc' = "exited"
    /\ UNCHANGED <<besidesGenerator, genInputs, barretenbergAPI, localValid, written, genPending>>

GenNext ==
    \/ GenBarretenbergNew
    \/ GenSwitchAccountType
    \/ GenExecute
    \/ GenGenerateProof
    \/ GenVerifyLocal
    \/ GenRecursiveArtifacts
    \/ GenMembership
    \/ GenWrite
    \/ GenFinally
    \/ GenDestroy
    \/ GenExit
    \/ GenCatch

GenSpec == GenInit /\ [][GenNext]_vars

\* Either program runs: the verifier or a generator script.
LifecycleInit == Init \/ GenInit

LifecycleNext == Next \/ GenNext

LifecycleSpec == LifecycleInit /\ [][LifecycleNext]_vars

\* Position in trace of the first entry e, or 0.
FirstIndex(e) ==
    IF \E i \in 1..Len(trace) : trace[i] = e
    THEN CHOOSE i \in 1..Len(trace) :
            trace[i] = e /\ \A j \in 1..(i - 1) : trace[j] # e
    ELSE 0

\* C24: in verifyZkProof and in the generic generator's main at most one
\* Barretenberg instance is created; once the function has completed,
\* normally or by an exception (verifyProof, generateProof, the membership
\* proof or any other step throwing), it has been destroyed exactly once;
\* and the backend is never used after the destroy.
C24_BackendLifecycle ==
    /\ bb.destroyed <= bb.created /\ bb.created <= 1
    /\ pc \in {"step4", "final", "returned", "thrown", "exited"}
          => bb.destroyed = bb.created
    /\ FirstIndex("destroy") # 0
          => /\ FirstIndex("Barretenberg.new") < FirstIndex("destroy")
             /\ \A i \in FirstIndex("destroy")..Len(trace) : trace[i] # "verifyProof"
    /\ script = "generic" =>
          /\ barretenbergAPI.destroyed <= barretenbergAPI.created
          /\ barretenbergAPI.created <= 1
          /\ gpc \in {"exit", "thrown", "exited"}
                => barretenbergAPI.destroyed = 1 /\ barretenbergAPI.created = 1
          /\ ~barretenbergAPI.usedAfterDestroy

\* A generic generator run whose generateProof threw has ended, its
\* instance destroyed.
C24_Witness ==
    /\ script = "generic"
    /\ fault = "generateProof"
    /\ gpc = "exited"
    /\ barretenbergAPI.destroyed = 1

\* A verifier run whose verifyProof threw has ended, its instance destroyed.
C24_WitnessVerifier ==
    /\ BackendThrew
    /\ pc = "exited"
    /\ bb.destroyed = 1

\* C25: data.json is written only after the local verifyProof answered
\* true; a run whose local verification answered false or threw, whose
\* earlier step threw, or whose account type is not supported, ends with
\* nothing written and exit code 1.
C25_VerifyBeforeWrite ==
    /\ written => localValid = "true"
    /\ gpc = "exited" =>
          /\ genExit \in {0, 1}
          /\ (\/ localValid # "true"
              \/ fault \in {"execute", "generateProof", "verifyThrows", "verifyFalse"}
              \/ accountType # "schnorr")
                => ~written /\ genExit = 1
          /\ genExit = 0 => written

\* The local verification answered false and the run ended without a file.
C25_Witness ==
    /\ gpc = "exited"
    /\ localValid = "false"
    /\ ~written
    /\ genExit = 1

C25_WitnessWritten ==
    /\ gpc = "exited"
    /\ written
    /\ genExit = 0

\* C26: in every returned VerificationResult contractClassIdValid equals
\* vkMembershipValid, contractClassId is the id the payload claims, and
\* that id is the recomputed class id whenever isValid is true.
C26_ResultClassId ==
    Returned =>
        /\ result.details.contractClassIdValid = result.details.vkMembershipValid
        /\ result.contractClassId = proofData.contractClass.id
        /\ result.isValid =>
              /\ vkResult.message # "error"
              /\ result.contractClassId = vkResult.computedClassId
              /\ FrFromString(result.contractClassId)
                    = classIdOf(proofData.vkMembershipProof)

\* A returned result that is not valid and names the claimed id, which is
\* not the recomputed one.
C26_Witness ==
    /\ Returned
    /\ vkResult.message = "mismatch"
    /\ result.contractClassId = proofData.contractClass.id
    /\ result.contractClassId # vkResult.computedClassId

C26_WitnessValid ==
    /\ Returned
    /\ result.isValid
    /\ result.contractClassId = vkResult.computedClassId

----------------------------------------------------------------------------
(* hello/src/main.nr: one call of div_prv or div_exe *)

\* The largest value of the integer type of the arguments (u32, cut down).
U32Max == 9

U32 == 0..U32Max

HelloInit ==
    /\ VerifierIdle
    /\ GeneratorIdle
    /\ ConsoleIdle
    /\ helloFn \in {"div_prv", "div_exe"}
    /\ dividend \in U32
    /\ divisor \in U32
    /\ hintSource \in IF helloFn = "div_prv" THEN {"divide", "prover"} ELSE {"divide"}
    /\ hpc = "call"
    /\ quotient = 0
    /\ remainder = 0
    /\ ret = -1

helloInputs == <<helloFn, dividend, divisor, hintSource>>

\* A divide that enters its loop whatever the divisor.
DivideEnterNoZeroCheck ==
    /\ hpc = "call"
    /\ hintSource = "divide"
    /\ quotient' = 0
    /\ remainder' = dividend
    /\ hpc' = "loop"
    /\ UNCHANGED <<besidesHello, helloInputs, ret>>

\* divide: the locals are set; a zero divisor returns (0, 0) at once.
DivideEnter ==
    /\ hpc = "call"
    /\ hintSource = "divide"
    /\ quotient' = 0
    /\ remainder' = IF divisor = 0 THEN 0 ELSE dividend
    /\ hpc' = IF divisor = 0 THEN "divided" ELSE "loop"
    /\ UNCHANGED <<besidesHello, helloInputs, ret>>

\* A loop that stops one subtraction early when the remainder equals the divisor.
DivideStepStrict ==
    /\ hpc = "loop"
    /\ IF remainder > divisor
       THEN /\ remainder' = remainder - divisor
            /\ quotient' = quotient + 1
            /\ hpc' = IF quotient = U32Max THEN "failed" ELSE "loop"
       ELSE /\ hpc' = "divided"
            /\ UNCHANGED <<quotient, remainder>>
    /\ UNCHANGED <<besidesHello, helloInputs, ret>>

\* divide: one test of `while remainder >= divisor`, with the body or the
\* return of (quotient, remainder); quotient + 1 beyond the type fails.
DivideStep ==
    /\ hpc = "loop"
    /\ IF remainder >= divisor
       THEN /\ remainder' = remainder - divisor
            /\ quotient' = IF quotient = U32Max THEN quotient ELSE quotient + 1
            /\ hpc' = IF quotient = U32Max THEN "failed" ELSE "loop"
       ELSE /\ hpc' = "divided"
            /\ UNCHANGED <<quotient, remainder>>
    /\ UNCHANGED <<besidesHello, helloInputs, ret>>

\* div_prv: the pair comes from an unconstrained call, so the prover may
\* hand the circuit any two values of the type.
ProverHint ==
    /\ hpc = "call"
    /\ hintSource = "prover"
    /\ \E q \in U32, r \in U32 :
          /\ quotient' = q
          /\ remainder' = r
    /\ hpc' = "divided"
    /\ UNCHANGED <<besidesHello, helloInputs, ret>>

\* quotient * divisor + remainder == dividend, in arithmetic that fails on
\* overflow.
constraintHolds(q, r, dvd, dvs) ==
    /\ q * dvs <= U32Max
    /\ q * dvs + r <= U32Max
    /\ q * dvs + r = dvd

\* div_prv: assert(quotient * divisor + remainder == dividend); quotient
PrvAssert ==
    /\ hpc = "divided"
    /\ helloFn = "div_prv"
    /\ IF constraintHolds(quotient, remainder, dividend, divisor)
       THEN ret' = quotient /\ hpc' = "returned"
       ELSE hpc' = "failed" /\ UNCHANGED ret
    /\ UNCHANGED <<besidesHello, helloInputs, quotient, remainder>>

\* div_exe: quotient
ExeReturn ==
    /\ hpc = "divided"
    /\ helloFn = "div_exe"
    /\ ret' = quotient
    /\ hpc' = "returned"
    /\ UNCHANGED <<besidesHello, helloInputs, quotient, remainder>>

HelloNext ==
    \/ DivideEnter
    \/ DivideStep
    \/ ProverHint
    \/ PrvAssert
    \/ ExeReturn

HelloSpec == HelloInit /\ [][HelloNext]_vars

\* C27: with the pair computed by divide and a divisor above 0, the loop
\* keeps quotient * divisor + remainder = dividend and ends (quotient never
\* passes dividend); the pair returned has remainder < divisor, hence
\* quotient = floor(dividend / divisor); the call never fails, and div_prv
\* and div_exe return that quotient.
C27_DivideCorrect ==
    (/\ hintSource = "divide"
     /\ divisor > 0
     /\ hpc \in {"loop", "divided", "returned", "failed"}) =>
        /\ hpc # "failed"
        /\ quotient * divisor + remainder = dividend
        /\ quotient <= dividend
        /\ hpc \in {"divided", "returned"} =>
              /\ remainder < divisor
              /\ quotient = dividend \div divisor
              /\ remainder = dividend % divisor
        /\ hpc = "returned" => ret = dividend \div divisor

\* div_prv(8, 3) returned 2.
C27_Witness ==
    /\ helloFn = "div_prv"
    /\ hintSource = "divide"
    /\ dividend = 8
    /\ divisor = 3
    /\ hpc = "returned"
    /\ ret = 2

C27_WitnessExe ==
    /\ helloFn = "div_exe"
    /\ dividend = 8
    /\ divisor = 3
    /\ hpc = "returned"
    /\ ret = 2

\* C28 (as claimed): for a divisor above 0, whatever pair the unconstrained
\* call hands to div_prv, a call that passes the assertion returns
\* floor(dividend / divisor).
C28_ConstraintSound ==
    (helloFn = "div_prv" /\ divisor > 0 /\ hpc = "returned") =>
        ret = dividend \div divisor

\* C29: with divisor 0, divide returns (0, 0) without entering its loop;
\* with that pair div_prv fails its assertion exactly when dividend is not
\* 0, and div_exe returns 0 and never fails.
C29_DivideByZero ==
    (hintSource = "divide" /\ divisor = 0) =>
        /\ hpc \in {"call", "divided", "returned", "failed"}
        /\ hpc # "call" => quotient = 0 /\ remainder = 0
        /\ helloFn = "div_prv" =>
              /\ hpc = "failed" => dividend # 0
              /\ hpc = "returned" => dividend = 0 /\ ret = 0
        /\ helloFn = "div_exe" =>
              /\ hpc # "failed"
              /\ hpc = "returned" => ret = 0

\* div_prv(5, 0) failed its assertion.
C29_Witness ==
    /\ helloFn = "div_prv"
    /\ hintSource = "divide"
    /\ divisor = 0
    /\ dividend = 5
    /\ hpc = "failed"

C29_WitnessExe ==
    /\ helloFn = "div_exe"
    /\ divisor = 0
    /\ dividend = 5
    /\ hpc = "returned"
    /\ ret = 0

----------------------------------------------------------------------------
(* test-wallet-webapp/src/consoleInterceptor.ts *)

\* The intercepted console methods and the prefix each interceptor passes on.
Methods == {"log", "error", "warn", "info", "debug", "trace", "dir", "table"}

prefixOf(m) ==
    CASE m = "log"   -> "[LOG]"
      [] m = "error" -> "[ERROR]"
      [] m = "warn"  -> "[WARN]"
      [] m = "info"  -> "[INFO]"
      [] m = "debug" -> "[DEBUG]"
      [] m = "trace" -> "[TRACE]"
      [] m = "dir"   -> "[DIR]"
      [] m = "table" -> "[TABLE]"

\* Arguments of a console call: a string (text "" stands for one of white
\* space only) or an object with the given keys.
StrArg(t) == [kind |-> "string", text |-> t, keys |-> {}]
ObjArg(k) == [kind |-> "object", text |-> "", keys |-> k]

ArgLists ==
    { << >>,
      <<StrArg("hello")>>,
      <<StrArg("")>>,
      <<StrArg("hello"), StrArg("world")>>,
      <<ObjArg({"module"})>>,
      <<ObjArg({"module"}), ObjArg({}), StrArg("synced")>>,
      <<ObjArg({"module"}), ObjArg({"level", "time"}), StrArg("")>>,
      <<ObjArg({"module"}), ObjArg({"level", "blockNumber"})>>,
      <<ObjArg({})>> }

\* formatArgs: the message as the sequence of its words (the parts joined
\* by spaces and trimmed; a part of white space only leaves no word).  The
\* first object with just a module key names the pino module; after it an
\* empty object is dropped and any other object gives its keys other than
\* level, time, hostname, pid, if there are any.
RECURSIVE formatParts(_, _, _)
formatParts(args, i, pinoLog) ==
    IF i > Len(args) THEN << >>
    ELSE LET arg == args[i]
         IN IF arg.kind = "object"
            THEN IF arg.keys = {"module"} /\ ~pinoLog
                 THEN formatParts(args, i + 1, TRUE)
                 ELSE IF pinoLog /\ arg.keys = {}
                 THEN formatParts(args, i + 1, pinoLog)
                 ELSE IF pinoLog
                 THEN (IF arg.keys \ {"level", "time", "hostname", "pid"} # {}
                       THEN <<"(metadata)">> ELSE << >>)
                      \o formatParts(args, i + 1, pinoLog)
                 ELSE <<"{json}">> \o formatParts(args, i + 1, pinoLog)
            ELSE (IF arg.text = "" THEN << >> ELSE <<arg.text>>)
                 \o formatParts(args, i + 1, pinoLog)

formatArgs(args) ==
    LET pinoLog == \E i \in 1..Len(args) : args[i].keys = {"module"}
    IN (IF pinoLog THEN <<"[module]">> ELSE << >>) \o formatParts(args, 1, FALSE)

\* What a registered callback does when called: return, or throw.
Callbacks == {"returns", "throws"}

CallbackEvent(prefix, message) == [what |-> "callback", tag |-> prefix, payload |-> message]
OriginalEvent(method, args) == [what |-> "original", tag |-> method, payload |-> args]

\* The function createInterceptor(method, prefix) returns, applied to args
\* while the callback is cb.
createInterceptor(method, prefix, args, cb) ==
    LET message == formatArgs(args)
        calls   == message # << >> /\ cb # Null
        thrown  == calls /\ cb = "throws"
    IN [method  |-> method,
        args    |-> args,
        invoked |-> (IF calls THEN <<CallbackEvent(prefix, message)>> ELSE << >>)
                    \o (IF thrown THEN << >> ELSE <<OriginalEvent(method, args)>>),
        threw   |-> thrown]

\* The module is loaded: the eight methods are replaced, no callback is set.
ConsoleInit ==
    /\ VerifierIdle
    /\ GeneratorIdle
    /\ HelloIdle
    /\ logCallback = Null
    /\ installed = TRUE
    /\ lastCall = NoCall

\* console.<method>(...args)
ConsoleCall ==
    /\ \E m \in Methods, a \in ArgLists :
          lastCall' = IF installed
                      THEN createInterceptor(m, prefixOf(m), a, logCallback)
                      ELSE [method |-> m, args |-> a,
                            invoked |-> <<OriginalEvent(m, a)>>, threw |-> FALSE]
    /\ UNCHANGED <<besidesConsole, logCallback, installed>>

\* setLogCallback(callback)
setLogCallback ==
    /\ \E cb \in Callbacks \cup {Null} : logCallback' = cb
    /\ lastCall' = NoCall
    /\ UNCHANGED <<besidesConsole, installed>>

\* restoreConsole()
restoreConsole ==
    /\ installed' = FALSE
    /\ lastCall' = NoCall
    /\ UNCHANGED <<besidesConsole, logCallback>>

ConsoleNext ==
    \/ ConsoleCall
    \/ setLogCallback
    \/ restoreConsole

ConsoleSpec == ConsoleInit /\ [][ConsoleNext]_vars

\* The events of the last call that are calls of e.
EventsOf(e) == SelectSeq(lastCall.invoked, LAMBDA x : x.what = e)

\* C30 (as claimed): a console call invokes the original method exactly
\* once, with the call's arguments, whether or not a callback is set; it
\* invokes the callback at most once, before the original, and only when a
\* callback is set, the interceptors are in place and the message has a
\* word; with no callback set, or after restoreConsole, no callback is
\* invoked.
C30_InterceptorTransparent ==
    lastCall.method # "none" =>
        /\ Len(EventsOf("original")) = 1
        /\ EventsOf("original")[1] = OriginalEvent(lastCall.method, lastCall.args)
        /\ Len(EventsOf("callback")) <= 1
        /\ Len(EventsOf("callback")) = 1 =>
              /\ lastCall.invoked[1].what = "callback"
              /\ logCallback # Null
              /\ installed
              /\ formatArgs(lastCall.args) # << >>
        /\ (logCallback = Null \/ ~installed) => Len(EventsOf("callback")) = 0

====
